---- MODULE Spec2Model ----
(***************************************************************************)
(* A model of explib/base.py: the Option attribute bag, the identity       *)
(* (fingerprint) and run protocol of expProfile, the grid expansion of     *)
(* expEnsemble and the batch execution of expPool.                         *)
(*                                                                         *)
(* The module holds one state machine per component, each with its own     *)
(* specification (SpecOption, SpecIdentity, SpecProfile, SpecEnsemble,     *)
(* SpecPool).  The variables of the components a specification does not    *)
(* exercise stay at their idle values.                                     *)
(***************************************************************************)
EXTENDS Integers, Sequences, FiniteSets, TLC

VARIABLES
    \* Option under test (SpecOption)
    opt,          \* its __dict__: a sequence of [k, v] in dict iteration order
    opt_names,    \* the field names it was constructed with
    opt_pre,      \* its __dict__ when the last update call began
    opt_kwnames,  \* the names the kwargs of the last update call held
    opt_exc,      \* what the last update call raised: "none" or "KeyError"
    \* two Profiles and their identities (SpecIdentity)
    id_p,         \* the two Profiles
    id_fp,        \* the hexdigest computed for each, "" before it is computed
    \* Profiles run one call after another by one caller (SpecProfile)
    pr,           \* the Profiles; they share one setting and one metric list
    fs,           \* the files under the save dirs: filename -> stored record
    fs_pre,       \* fs when the last call of run began
    st_bound,     \* the setting's dataset, model and metrics (setup), or <<>>
    m_values,     \* the values list of each shared metric instance
    calls,        \* the calls of run made so far, each with its outcome
    \* one Ensemble and the generators made by iterating it (SpecEnsemble)
    ens_models,   \* self.models: one imap per add_model, [grid, pos]
    ens_datasets, \* self.datasets: one imap per add_dataset, [grid, pos]
    n_models,     \* self._n_models
    n_datasets,   \* self._n_datasets
    gens,         \* the generators returned by __iter__, in creation order
    \* one Pool, the Ensemble that may be added to it, the disk (SpecPool)
    pool_tasks,   \* self.tasks: the groups added, a Profile or the Ensemble
    pool_dirs,    \* self.dirs
    n_workers,    \* self.n_workers
    pool_pc,      \* "adding", "mapping" (inside pool.map), "returned", "raised",
                  \* "failed" (run raised before pool.map dispatched)
    pool_ens,     \* the Ensemble: its imaps and its two counts
    disk_dirs,    \* the directories that exist
    pool_fs,      \* the files under them: filename -> stored record
    queue         \* the tasks pool.map was given, each with its progress

optVars == <<opt, opt_names, opt_pre, opt_kwnames, opt_exc>>
idVars == <<id_p, id_fp>>
prVars == <<pr, fs, fs_pre, st_bound, m_values, calls>>

ensVars == <<ens_models, ens_datasets, n_models, n_datasets, gens>>

poolVars == <<pool_tasks, pool_dirs, n_workers, pool_pc, pool_ens, disk_dirs,
              pool_fs, queue>>

vars == <<optVars, idVars, prVars, ensVars, poolVars>>

(***************************************************************************)
(* Bounds.                                                                 *)
(***************************************************************************)
MaxVal == 1        \* option values are the ints 1..MaxVal and the strings "1".."MaxVal"
MaxFields == 2     \* fields of an Option under test, and of one kwargs
MaxMetrics == 2    \* metrics of a Profile
MaxCalls == 3      \* calls of expProfile.run by the one caller
MaxGrid == 2       \* parameter sets of one grid
MaxAdds == 3       \* add_model and add_dataset calls on the Ensemble
MaxIters == 2      \* generators made from the Ensemble
MaxGroups == 3     \* add calls on the Pool
MaxWorkers == 2    \* worker processes of the Pool (one, or this many)

(***************************************************************************)
(* Python values held by option fields and their '%s' rendering.           *)
(***************************************************************************)
IntVal(n) == [t |-> "int", n |-> n]
StrVal(s) == [t |-> "str", s |-> s]

Values == {IntVal(i) : i \in 1..MaxVal} \cup {StrVal(ToString(i)) : i \in 1..MaxVal}

\* '%s' % v: str() of an int is its decimal digits, str() of a string is the
\* string itself (no quotes).
PyStr(v) == IF v.t = "int" THEN ToString(v.n) ELSE v.s

(***************************************************************************)
(* Field names, and their order under Python's string comparison.          *)
(***************************************************************************)
KeyOrder == <<"a", "b", "c", "k", "name">>

\* the names an Option is constructed with, and the names a call may pass
FieldNames == {"a", "b"}
KwNames == {"a", "b", "c"}

(***************************************************************************)
(* A dict: a sequence of [k, v] with distinct keys, in iteration order.    *)
(***************************************************************************)
Item(k, v) == [k |-> k, v |-> v]

Names(d) == {d[i].k : i \in 1..Len(d)}

HasKey(d, k) == k \in Names(d)

Get(d, k) == d[CHOOSE i \in 1..Len(d) : d[i].k = k].v

\* d[k] = v for a key that is present: the slot keeps its place
SetItem(d, k, v) == [i \in 1..Len(d) |-> IF d[i].k = k THEN Item(k, v) ELSE d[i]]

\* d[k] = v for a new key
AddItem(d, k, v) == Append(d, Item(k, v))

DictsOver(keys, n) ==
    UNION {{d \in [1..m -> [k : keys, v : Values]] :
                \A i, j \in 1..m : i # j => d[i].k # d[j].k} : m \in 0..n}

\* keyword arguments of a call, in every iteration order the dict may have
Kwargs == DictsOver(KwNames, MaxFields)
CtorKwargs == DictsOver(FieldNames, MaxFields)

(***************************************************************************)
(* class Option                                                            *)
(***************************************************************************)
\* Option.__init__: self.__dict__.update(**kwargs)
OptionInit(kw) == kw

\* Option.update, entered at item i of kwargs.iteritems(); a known key is
\* reassigned, the first unknown key raises and ends the loop.
RECURSIVE UpdateFrom(_, _, _)
UpdateFrom(d, kw, i) ==
    IF i > Len(kw) THEN [dict |-> d, exc |-> "none"]
    ELSE IF HasKey(d, kw[i].k)
         THEN UpdateFrom(SetItem(d, kw[i].k, kw[i].v), kw, i + 1)
         ELSE [dict |-> d, exc |-> "KeyError"]

\* a dict.update in place of the loop: an unknown key is added, nothing raises
RECURSIVE UpdateAdding(_, _, _)
UpdateAdding(d, kw, i) ==
    IF i > Len(kw) THEN [dict |-> d, exc |-> "none"]
    ELSE IF HasKey(d, kw[i].k)
         THEN UpdateAdding(SetItem(d, kw[i].k, kw[i].v), kw, i + 1)
         ELSE UpdateAdding(AddItem(d, kw[i].k, kw[i].v), kw, i + 1)

OptionUpdateAdding(d, kw) == UpdateAdding(d, kw, 1)

\* the loop with the unknown key skipped instead of raised
RECURSIVE UpdateSkipping(_, _, _)
UpdateSkipping(d, kw, i) ==
    IF i > Len(kw) THEN [dict |-> d, exc |-> "none"]
    ELSE IF HasKey(d, kw[i].k)
         THEN UpdateSkipping(SetItem(d, kw[i].k, kw[i].v), kw, i + 1)
         ELSE UpdateSkipping(d, kw, i + 1)

OptionUpdateSkipping(d, kw) == UpdateSkipping(d, kw, 1)

\* Option.update(**kw)
OptionUpdate(d, kw) == UpdateFrom(d, kw, 1)

\* sorted(self.__dict__.iteritems()): the keys are distinct, so the pairs
\* sort by key
RECURSIVE SortedFrom(_, _)
SortedFrom(d, r) ==
    IF r > Len(KeyOrder) THEN <<>>
    ELSE IF HasKey(d, KeyOrder[r])
         THEN <<Item(KeyOrder[r], Get(d, KeyOrder[r]))>> \o SortedFrom(d, r + 1)
         ELSE SortedFrom(d, r + 1)

\* the pairs left in dict iteration order
UnsortedPairs(d) == d

SortedPairs(d) == SortedFrom(d, 1)

\* sep.join(strs)
RECURSIVE Join(_, _)
Join(sep, strs) ==
    IF Len(strs) = 0 THEN ""
    ELSE IF Len(strs) = 1 THEN strs[1]
    ELSE strs[1] \o sep \o Join(sep, Tail(strs))

\* '%s=%s' % (k, v)
PairStr(it) == it.k \o "=" \o PyStr(it.v)

\* Option.__str__
OptionStr(d) ==
    LET sorted_pairs == SortedPairs(d)
        kv_str == Join(", ", [i \in 1..Len(sorted_pairs) |-> PairStr(sorted_pairs[i])])
    IN  "Option(" \o kv_str \o ")"

(***************************************************************************)
(* class expProfile: identity.  A component (dataset, model, setting,      *)
(* metric) is represented by its _opts, the dict of an Option.             *)
(***************************************************************************)
Dirs == {"d1", "d2"}

\* expProfile.__init__
Profile(dataset, model, metrics, setting, save_dir, overwrite) ==
    [dataset |-> dataset, model |-> model, metrics |-> metrics,
     setting |-> setting, save_dir |-> save_dir, overwrite |-> overwrite]

\* expProfile.get_options
get_options(p) ==
    [dataset |-> p.dataset, model |-> p.model, setting |-> p.setting,
     metrics |-> p.metrics]

\* opts_list of expProfile.run: dataset, model, setting, then the metrics
opts_list(p) ==
    LET options == get_options(p)
    IN  <<options.dataset, options.model, options.setting>> \o options.metrics

\* the list with the metrics first
opts_list_metrics_first(p) ==
    LET options == get_options(p)
    IN  options.metrics \o <<options.dataset, options.model, options.setting>>

\* hashlib.md5(s).hexdigest(): the digest is taken to be collision free, so it
\* is represented by the string it digests
Md5Hex(s) == "md5<" \o s \o ">"

\* map(str, opts_list) with the fields of each Option in dict iteration order
StrUnsorted(d) ==
    "Option(" \o Join(", ", [i \in 1..Len(d) |-> PairStr(d[i])]) \o ")"

hexdigest_unsorted(p) ==
    LET l == opts_list(p)
    IN  Md5Hex(Join(";", [i \in 1..Len(l) |-> StrUnsorted(l[i])]))

\* a digest that also takes in save_dir
hexdigest_with_dir(p) ==
    LET l == opts_list(p)
    IN  Md5Hex(p.save_dir \o ";" \o Join(";", [i \in 1..Len(l) |-> OptionStr(l[i])]))

\* encoder.update(';'.join(map(str, opts_list))); encoder.hexdigest()
hexdigest(p) ==
    LET l == opts_list(p)
    IN  Md5Hex(Join(";", [i \in 1..Len(l) |-> OptionStr(l[i])]))

\* os.path.join(self.save_dir, encoder.hexdigest())
filename(p) == p.save_dir \o "/" \o hexdigest(p)

(***************************************************************************)
(* class expProfile: run.  The file system is a function from the names    *)
(* of the files that exist to the records stored in them.                  *)
(***************************************************************************)
NoFiles == <<>>

\* os.path.exists(filename)
Exists(fsys, fn) == fn \in DOMAIN fsys

\* a check that forgets the overwrite flag
ShouldSkipAlways(p, fn, fsys) == Exists(fsys, fn)

\* a check that forgets to look for the file
ShouldSkipNever(p, fn, fsys) == FALSE

\* expProfile.run: not self.overwrite and os.path.exists(filename)
ShouldSkip(p, fn, fsys) == ~p.overwrite /\ Exists(fsys, fn)

\* expSetting.setup: the setting is bound to the Profile's components
SettingSetup(p) == [dataset |-> p.dataset, model |-> p.model, metrics |-> p.metrics]

\* what the abstract expSetting.run does when called: it returns or raises
RunOutcomes == {"returns", "raises"}

\* expSetting.run returning: every bound metric instance has evaluated once
\* and appended the value to its list (expMetric.values)
Evaluated(values, token) == [i \in 1..Len(values) |-> Append(values[i], token)]

\* expSetting.get_metrics_result
get_metrics_result(bound, values) ==
    [i \in 1..Len(bound.metrics) |-> <<bound.metrics[i], values[i]>>]

\* what savepkl does when called: it writes the file, raises IOError, or
\* raises another error (a pickling error, an OSError)
SaveOutcomes == {"written", "IOError", "Error"}

\* savepkl(result, filename) that wrote the file
Written(fsys, fn, result) ==
    [f \in DOMAIN fsys \cup {fn} |-> IF f = fn THEN result ELSE fsys[f]]

\* a run that writes the record before it calls setting.run
RunAndSaveEager(p, fn, fsys, values, token, ran, saved) ==
    LET b == SettingSetup(p)
        vs == IF ran = "raises" THEN values ELSE Evaluated(values, token)
        result == [Options |-> get_options(p),
                   Metrics |-> get_metrics_result(b, vs),
                   Others |-> token]
    IN  [outcome |-> IF ran = "raises" THEN "run_raised" ELSE "saved",
         fs |-> Written(fsys, fn, result), bound |-> b, values |-> vs]

\* expProfile.run from "run and save" on: setup, setting.run, the record,
\* savepkl.  The outcome, and the state it leaves:
\*   "run_raised"  setting.run raised, the exception leaves run
\*   "saved"       the record is written, run returns
\*   "save_failed" savepkl raised IOError, caught and logged, run returns
\*   "save_raised" savepkl raised another error, the exception leaves run
RunAndSave(p, fn, fsys, values, token, ran, saved) ==
    LET b == SettingSetup(p) IN
    IF ran = "raises"
    THEN [outcome |-> "run_raised", fs |-> fsys, bound |-> b, values |-> values]
    ELSE LET vs == Evaluated(values, token)
             result == [Options |-> get_options(p),
                        Metrics |-> get_metrics_result(b, vs),
                        Others |-> token]
         IN  CASE saved = "written" ->
                    [outcome |-> "saved", fs |-> Written(fsys, fn, result),
                     bound |-> b, values |-> vs]
               [] saved = "IOError" ->
                    [outcome |-> "save_failed", fs |-> fsys, bound |-> b, values |-> vs]
               [] saved = "Error" ->
                    [outcome |-> "save_raised", fs |-> fsys, bound |-> b, values |-> vs]

\* a run that binds the setting before it looks for the file
CheckAndRunSetupFirst(p, fn, fsys, bound, values, token, ran, saved) ==
    IF ShouldSkip(p, fn, fsys)
    THEN [outcome |-> "skip", fs |-> fsys, bound |-> SettingSetup(p), values |-> values]
    ELSE RunAndSave(p, fn, fsys, values, token, ran, saved)

\* expProfile.run from the existence check on, fn being the filename it
\* computed; "skip": returned at the existence check
CheckAndRun(p, fn, fsys, bound, values, token, ran, saved) ==
    IF ShouldSkip(p, fn, fsys)
    THEN [outcome |-> "skip", fs |-> fsys, bound |-> bound, values |-> values]
    ELSE RunAndSave(p, fn, fsys, values, token, ran, saved)

\* expProfile.run as one call
ProfileRun(p, fsys, bound, values, token, ran, saved) ==
    CheckAndRun(p, filename(p), fsys, bound, values, token, ran, saved)

(***************************************************************************)
(* class expEnsemble.  A parameter set is the kwargs of one variant; a     *)
(* grid is the sequence of parameter sets it enumerates.  Each add stores  *)
(* an imap over the grid: a one-shot iterator, here the grid and the       *)
(* number of parameter sets already taken from it.                         *)
(***************************************************************************)
Max(a, b) == IF a >= b THEN a ELSE b

\* ParamsGrid(): the default grid enumerates exactly one empty parameter set
DefaultGrid == <<<<>>>>

\* para_grid or ParamsGrid()
GridOrDefault(para_grid) == IF Len(para_grid) = 0 THEN DefaultGrid ELSE para_grid

\* imap(lambda para: cls(**para), para_grid), nothing taken yet
Imap(para_grid) == [grid |-> para_grid, pos |-> 0]

\* an increment of one per source, whatever its grid
VariantsOne(para_grid) == 1

\* max(1, len(para_grid))
Variants(para_grid) == Max(1, Len(para_grid))

\* a length that adds the two counts
EnsLenSum(nm, nd) == nm + nd

\* expEnsemble.__len__
EnsLen(nm, nd) == nm * nd

\* getDefaultOption for the model class and the dataset class: the class
\* defaults and the derived name field
ModelDefaults == <<Item("a", IntVal(1)), Item("name", StrVal("M"))>>
DatasetDefaults == <<Item("a", IntVal(1)), Item("name", StrVal("D"))>>

\* expBase.__init__: cls(**para)
Construct(defaults, para) == OptionUpdate(OptionInit(defaults), para)

\* what is left of chain(*sources): the parameter sets not yet taken, in
\* source order
RECURSIVE Remaining(_)
Remaining(sources) ==
    IF Len(sources) = 0 THEN <<>>
    ELSE SubSeq(sources[1].grid, sources[1].pos + 1, Len(sources[1].grid))
            \o Remaining(Tail(sources))

\* every imap run to its end
Exhausted(sources) ==
    [i \in 1..Len(sources) |-> [sources[i] EXCEPT !.pos = Len(sources[i].grid)]]

\* no imap has given anything yet
Untouched(sources) == \A i \in 1..Len(sources) : sources[i].pos = 0

\* the parameter sets among paras that the class rejects: cls(**para) raises
Rejected(defaults, paras) ==
    {n \in 1..Len(paras) : Construct(defaults, paras[n]).exc # "none"}

\* tuple(chain(*sources)) as product does it: the imaps are read one after
\* another, each parameter set taken is constructed; the first one the class
\* rejects raises and ends the reading, with that parameter set taken and the
\* later ones, and the later imaps, left as they were
RECURSIVE ReadSources(_, _)
ReadSources(sources, defaults) ==
    IF Len(sources) = 0 THEN [exc |-> FALSE, after |-> <<>>]
    ELSE LET src == sources[1]
             paras == SubSeq(src.grid, src.pos + 1, Len(src.grid))
             bad == Rejected(defaults, paras)
         IN  IF bad # {}
             THEN [exc |-> TRUE,
                   after |-> <<[src EXCEPT !.pos = src.pos +
                                    CHOOSE n \in bad : \A o \in bad : n <= o]>>
                                \o Tail(sources)]
             ELSE LET r == ReadSources(Tail(sources), defaults)
                  IN  [exc |-> r.exc,
                       after |-> <<[src EXCEPT !.pos = Len(src.grid)]>> \o r.after]

\* the first advance of a generator of __iter__: product reads the models,
\* then the datasets; an instance that cannot be constructed raises out of
\* the generator before any pair is made
FirstAdvance(msrc, dsrc) ==
    LET rm == ReadSources(msrc, ModelDefaults)
        rd == ReadSources(dsrc, DatasetDefaults)
    IN  IF rm.exc
        THEN [exc |-> TRUE, models |-> rm.after, datasets |-> dsrc]
        ELSE [exc |-> rd.exc, models |-> rm.after, datasets |-> rd.after]

\* the instances: one _opts per parameter set
Instances(defaults, paras) ==
    [i \in 1..Len(paras) |-> Construct(defaults, paras[i]).dict]

\* a product with the second input varying slowest
ProductDatasetMajor(ms, ds) ==
    [n \in 1..(Len(ms) * Len(ds)) |->
        [mi |-> ((n - 1) % Len(ms)) + 1,
         di |-> ((n - 1) \div Len(ms)) + 1,
         model |-> ms[((n - 1) % Len(ms)) + 1],
         dataset |-> ds[((n - 1) \div Len(ms)) + 1]]]

\* product(models, datasets): both inputs are read to their end, then the
\* pairs come with the first input varying slowest
Product(ms, ds) ==
    [n \in 1..(Len(ms) * Len(ds)) |->
        [mi |-> ((n - 1) \div Len(ds)) + 1,
         di |-> ((n - 1) % Len(ds)) + 1,
         model |-> ms[((n - 1) \div Len(ds)) + 1],
         dataset |-> ds[((n - 1) % Len(ds)) + 1]]]

\* a generator that builds its product anew from the stored grids
ItemsRestarting(msrc, dsrc) ==
    Product(Instances(ModelDefaults, Remaining([i \in 1..Len(msrc) |-> Imap(msrc[i].grid)])),
            Instances(DatasetDefaults, Remaining([i \in 1..Len(dsrc) |-> Imap(dsrc[i].grid)])))

\* the pairs a generator of __iter__ yields, fixed when it is first advanced
Items(msrc, dsrc) ==
    Product(Instances(ModelDefaults, Remaining(msrc)),
            Instances(DatasetDefaults, Remaining(dsrc)))

(***************************************************************************)
(* SpecIdentity: two Profiles built from the same fields, supplied in any  *)
(* order, with the metrics in any order, any save_dir and any overwrite    *)
(* flag; the identity of each is computed.                                 *)
(***************************************************************************)
\* the field name to value mapping of a dict
AsMap(d) == [k \in Names(d) |-> Get(d, k)]

Reorderings(s) ==
    {[i \in 1..Len(s) |-> s[f[i]]] :
        f \in {g \in [1..Len(s) -> 1..Len(s)] : \A i, j \in 1..Len(s) : i # j => g[i] # g[j]}}

SeqsUpTo(S, n) == UNION {[1..m -> S] : m \in 0..n}

DatasetOpts == {d \in CtorKwargs : Names(d) = FieldNames}
ModelOpts == {<<Item("name", StrVal("M"))>>}
SettingOpts == {<<Item("name", StrVal("S"))>>}
MetricOpts == {<<Item("k", v)>> : v \in Values}

\* the same components with the fields of the dataset in another iteration
\* order and the metric list in another order
Rebuilt(p) ==
    {Profile(d, p.model, ms, p.setting, dir, ow) :
        d \in Reorderings(p.dataset), ms \in Reorderings(p.metrics),
        dir \in Dirs, ow \in BOOLEAN}

SameValues(p, q) ==
    /\ AsMap(p.dataset) = AsMap(q.dataset)
    /\ AsMap(p.model) = AsMap(q.model)
    /\ AsMap(p.setting) = AsMap(q.setting)
    /\ Len(p.metrics) = Len(q.metrics)
    /\ \A i \in 1..Len(p.metrics) : AsMap(p.metrics[i]) = AsMap(q.metrics[i])

(***************************************************************************)
(* SpecOption: one Option, constructed from arbitrary kwargs and then      *)
(* updated any number of times.                                            *)
(***************************************************************************)
OptIdle ==
    /\ opt = <<>>
    /\ opt_names = {}
    /\ opt_pre = <<>>
    /\ opt_kwnames = {}
    /\ opt_exc = "none"

IdIdle ==
    /\ id_p = <<>>
    /\ id_fp = <<>>

PrIdle ==
    /\ pr = <<>>
    /\ fs = NoFiles
    /\ fs_pre = NoFiles
    /\ st_bound = <<>>
    /\ m_values = <<>>
    /\ calls = <<>>

EnsIdle ==
    /\ ens_models = <<>>
    /\ ens_datasets = <<>>
    /\ n_models = 0
    /\ n_datasets = 0
    /\ gens = <<>>

PoolIdle ==
    /\ pool_tasks = <<>>
    /\ pool_dirs = {}
    /\ n_workers = 0
    /\ pool_pc = "adding"
    /\ pool_ens = <<>>
    /\ disk_dirs = {}
    /\ pool_fs = NoFiles
    /\ queue = <<>>

OptInit ==
    /\ \E kw \in CtorKwargs :
        /\ opt = OptionInit(kw)
        /\ opt_names = Names(kw)
        /\ opt_pre = OptionInit(kw)
        /\ opt_kwnames = {}
        /\ opt_exc = "none"
    /\ IdIdle
    /\ PrIdle
    /\ EnsIdle
    /\ PoolIdle

\* opts.update(**kw)
OptUpdate ==
    /\ \E kw \in Kwargs :
        LET r == OptionUpdate(opt, kw) IN
        /\ opt' = r.dict
        /\ opt_pre' = opt
        /\ opt_kwnames' = Names(kw)
        /\ opt_exc' = r.exc
        /\ UNCHANGED opt_names
    /\ UNCHANGED <<idVars, prVars, ensVars, poolVars>>

OptNext == OptUpdate

SpecOption == OptInit /\ [][OptNext]_vars

IdInit ==
    /\ \E d \in DatasetOpts, m \in ModelOpts, st \in SettingOpts,
          ms \in SeqsUpTo(MetricOpts, MaxMetrics) :
        \E q \in Rebuilt(Profile(d, m, ms, st, "d1", FALSE)) :
            id_p = <<Profile(d, m, ms, st, "d1", FALSE), q>>
    /\ id_fp = <<"", "">>
    /\ OptIdle
    /\ PrIdle
    /\ EnsIdle
    /\ PoolIdle

\* the first lines of expProfile.run on Profile i: its hexdigest
IdCompute(i) ==
    /\ id_fp[i] = ""
    /\ id_fp' = [id_fp EXCEPT ![i] = hexdigest(id_p[i])]
    /\ UNCHANGED <<id_p, optVars, prVars, ensVars, poolVars>>

IdNext == \E i \in 1..2 : IdCompute(i)

SpecIdentity == IdInit /\ [][IdNext]_vars

\* the names of the last update call that the Option did not have
UnknownNames == opt_kwnames \ Names(opt_pre)

\* C8 as stated: an update call that passes an unknown field name raises the
\* invalid-parameter error and leaves every field of the Option as it was,
\* also when the call names known fields too.
C8_UpdateRejectsUnchanged ==
    UnknownNames # {} => (opt_exc = "KeyError" /\ opt = opt_pre)

\* C8 amended: an update call that passes an unknown field name raises the
\* invalid-parameter error; the Option keeps its field names, every field the
\* call does not name keeps its value, and a call that names no known field
\* changes nothing.  (Known fields the call names may already be reassigned.)
C8_UpdateRejectsPartial ==
    UnknownNames # {} =>
        /\ opt_exc = "KeyError"
        /\ Names(opt) = Names(opt_pre)
        /\ \A k \in Names(opt_pre) \ opt_kwnames : Get(opt, k) = Get(opt_pre, k)
        /\ (opt_kwnames \cap Names(opt_pre) = {} => opt = opt_pre)

\* a rejected call that named a known field too, beside a field it left alone
C8_Witness ==
    /\ opt_exc = "KeyError"
    /\ opt_kwnames \cap Names(opt_pre) # {}
    /\ Names(opt_pre) \ opt_kwnames # {}

\* C9: the field names of an Option are those it was constructed with, after
\* any sequence of successful and failing update calls.
C9_NamesFixed == Names(opt) = opt_names

\* a call that passed an unknown name after it had reassigned a known field
C9_Witness ==
    /\ UnknownNames # {}
    /\ opt # opt_pre
    /\ Names(opt) = opt_names

(***************************************************************************)
(* SpecProfile: two Profiles that share their model, setting and metric    *)
(* instance, as the Profiles of one Ensemble do; one caller calls run on   *)
(* them, one call after another.  A result of an earlier session may       *)
(* already be stored for the first Profile.                                *)
(***************************************************************************)
TheModel == <<Item("name", StrVal("M"))>>
TheSetting == <<Item("name", StrVal("S"))>>
TheMetrics == <<<<Item("k", IntVal(1))>>>>

\* the dataset of the first Profile; those of the second: the same values,
\* another value with the same rendering, another field
FirstDataset == <<Item("a", IntVal(1))>>
SecondDatasets == {<<Item("a", IntVal(1))>>, <<Item("a", StrVal("1"))>>,
                   <<Item("b", IntVal(1))>>}

\* a record stored by an earlier session
OldRecord(p) ==
    [Options |-> get_options(p), Metrics |-> <<<<p.metrics[1], <<0>>>>>>, Others |-> 0]

PrInit ==
    /\ \E d \in SecondDatasets, dir \in Dirs, ow1, ow2 \in BOOLEAN :
          pr = <<Profile(FirstDataset, TheModel, TheMetrics, TheSetting, "d1", ow1),
                 Profile(d, TheModel, TheMetrics, TheSetting, dir, ow2)>>
    /\ fs \in {NoFiles, Written(NoFiles, filename(pr[1]), OldRecord(pr[1]))}
    /\ fs_pre = fs
    /\ st_bound = <<>>
    /\ m_values = [i \in 1..Len(TheMetrics) |-> <<>>]
    /\ calls = <<>>
    /\ OptIdle
    /\ IdIdle
    /\ EnsIdle
    /\ PoolIdle

\* pr[i].run() from the existence check on, fn being the filename it computed,
\* with what setting.run and savepkl do if they are reached
ProfRunAt(i, fn) ==
    /\ Len(calls) < MaxCalls
    /\ \E ran \in RunOutcomes, saved \in SaveOutcomes :
        LET r == CheckAndRun(pr[i], fn, fs, st_bound, m_values, Len(calls) + 1,
                             ran, saved) IN
        /\ fs' = r.fs
        /\ fs_pre' = fs
        /\ st_bound' = r.bound
        /\ m_values' = r.values
        /\ calls' = Append(calls, [p |-> i, outcome |-> r.outcome, fn |-> fn,
                                   existed |-> Exists(fs, fn)])
    /\ UNCHANGED <<pr, optVars, idVars, ensVars, poolVars>>

\* pr[i].run()
ProfRun(i) == ProfRunAt(i, filename(pr[i]))

PrNext == \E i \in 1..2 : ProfRun(i)

SpecProfile == PrInit /\ [][PrNext]_vars

(***************************************************************************)
(* SpecEnsemble: one Ensemble; sources are added and the Ensemble is       *)
(* iterated, in any order.                                                 *)
(***************************************************************************)
\* a grid whose second parameter set names an option the class does not have
BadGrid == <<<<Item("a", IntVal(1))>>, <<Item("c", IntVal(1))>>>>

\* a grid of m parameter sets with different values
GridOf(m) == [i \in 1..m |-> <<Item("a", IntVal(i))>>]

\* the grids passed to add_model: none, one parameter set, MaxGrid different
\* ones, two values that are different and render alike, and the bad grid
ModelGrids ==
    {GridOf(0), GridOf(1), GridOf(MaxGrid)}
        \cup {<<<<Item("a", IntVal(1))>>, <<Item("a", StrVal("1"))>>>>}
        \cup {BadGrid}

\* the grids passed to add_dataset
DatasetGrids == {GridOf(0), GridOf(MaxGrid), BadGrid}

EnsInit ==
    /\ ens_models = <<>>
    /\ ens_datasets = <<>>
    /\ n_models = 0
    /\ n_datasets = 0
    /\ gens = <<>>
    /\ OptIdle
    /\ IdIdle
    /\ PrIdle
    /\ PoolIdle

Adds == Len(ens_models) + Len(ens_datasets)

\* ensemble.add_model(cls, para_grid)
add_model ==
    /\ Adds < MaxAdds
    /\ \E given \in ModelGrids :
        LET para_grid == GridOrDefault(given) IN
        /\ ens_models' = Append(ens_models, Imap(para_grid))
        /\ n_models' = n_models + Variants(para_grid)
    /\ UNCHANGED <<ens_datasets, n_datasets, gens, optVars, idVars, prVars, poolVars>>

\* ensemble.add_dataset(cls, para_grid)
add_dataset ==
    /\ Adds < MaxAdds
    /\ \E given \in DatasetGrids :
        LET para_grid == GridOrDefault(given) IN
        /\ ens_datasets' = Append(ens_datasets, Imap(para_grid))
        /\ n_datasets' = n_datasets + Variants(para_grid)
    /\ UNCHANGED <<ens_models, n_models, gens, optVars, idVars, prVars, poolVars>>

\* iter(ensemble): a generator whose body has not started.  (It holds nothing
\* until it is first advanced: one unstarted generator at a time is enough.)
EnsIter ==
    /\ Len(gens) < MaxIters
    /\ \A h \in 1..Len(gens) : gens[h].st # "new"
    /\ gens' = Append(gens, [st |-> "new", items |-> <<>>, pos |-> 0,
                               adds |-> 0, nm |-> 0, nd |-> 0, fresh |-> FALSE])
    /\ UNCHANGED <<ens_models, ens_datasets, n_models, n_datasets,
                   optVars, idVars, prVars, poolVars>>

\* next(g) on a generator whose body has not started: the chains are made,
\* product reads both to their end, and the first pair is yielded or, with
\* no pair, the generator ends; if an instance cannot be constructed the
\* error leaves next(g) and the generator is finished.  The generator records
\* the number of add calls, the two counts and whether every imap was
\* untouched at that moment.
\* (Generators that have not started are alike: the oldest is advanced first.)
EnsFirstNext(g) ==
    /\ gens[g].st = "new"
    /\ \A h \in 1..Len(gens) : h < g => gens[h].st # "new"
    /\ LET adv == FirstAdvance(ens_models, ens_datasets)
           items == IF adv.exc THEN <<>> ELSE Items(ens_models, ens_datasets)
       IN  /\ gens' = [gens EXCEPT ![g] =
                    [st |-> IF adv.exc THEN "raised"
                            ELSE IF Len(items) = 0 THEN "done" ELSE "run",
                     items |-> items,
                     pos |-> IF Len(items) = 0 THEN 0 ELSE 1,
                     adds |-> Adds,
                     nm |-> n_models,
                     nd |-> n_datasets,
                     fresh |-> Untouched(ens_models) /\ Untouched(ens_datasets)]]
           /\ ens_models' = adv.models
           /\ ens_datasets' = adv.datasets
    /\ UNCHANGED <<n_models, n_datasets, optVars, idVars, prVars, poolVars>>

\* next(g) on a generator that has yielded: the next pair, or the end
EnsNext(g) ==
    /\ gens[g].st = "run"
    /\ gens' = [gens EXCEPT ![g] =
                    IF gens[g].pos < Len(gens[g].items)
                    THEN [gens[g] EXCEPT !.pos = gens[g].pos + 1]
                    ELSE [gens[g] EXCEPT !.st = "done"]]
    /\ UNCHANGED <<ens_models, ens_datasets, n_models, n_datasets,
                   optVars, idVars, prVars, poolVars>>

EnsembleNext ==
    \/ add_model
    \/ add_dataset
    \/ EnsIter
    \/ \E g \in 1..Len(gens) : EnsFirstNext(g)
    \/ \E g \in 1..Len(gens) : EnsNext(g)

SpecEnsemble == EnsInit /\ [][EnsembleNext]_vars

\* the parameter sets the sources enumerate in all
RECURSIVE TotalVariants(_)
TotalVariants(sources) ==
    IF Len(sources) = 0 THEN 0
    ELSE Len(sources[1].grid) + TotalVariants(Tail(sources))

\* C4 as stated: len(ensemble) is max(1, model variants) * max(1, dataset
\* variants) after any add calls, also with no add_model or no add_dataset
\* call; a source with no grid or an empty grid is one variant.
C4_LenIsProductOfMax ==
    EnsLen(n_models, n_datasets) =
        Max(1, TotalVariants(ens_models)) * Max(1, TotalVariants(ens_datasets))

\* C4 amended: len(ensemble) is (model variants) * (dataset variants) after
\* any add calls, a source with no grid or an empty grid being one variant and
\* a source with a grid as many as its parameter sets; it is 0 while no model
\* source or no dataset source has been added.
C4_LenIsProduct ==
    /\ EnsLen(n_models, n_datasets) =
            TotalVariants(ens_models) * TotalVariants(ens_datasets)
    /\ (Len(ens_models) = 0 \/ Len(ens_datasets) = 0) => EnsLen(n_models, n_datasets) = 0

\* two model sources, one of them with the default grid, and a dataset grid
C4_Witness ==
    /\ Len(ens_models) = 2
    /\ ens_models[1].grid = DefaultGrid
    /\ Len(ens_models[2].grid) = MaxGrid
    /\ Len(ens_datasets) = 1
    /\ EnsLen(n_models, n_datasets) = (1 + MaxGrid) * Len(ens_datasets[1].grid)
    /\ Len(ens_datasets[1].grid) > 1

\* the generator has run the first lines of __iter__
Started(g) == gens[g].st \in {"run", "done"}

\* the Profile __iter__ makes of a pair
ProfileOf(it) == Profile(it.dataset, it.model, TheMetrics, TheSetting, "d1", FALSE)

\* the pairs are one for every (model variant, dataset variant), none twice
EveryPairOnce(g) ==
    /\ Len(gens[g].items) = EnsLen(gens[g].nm, gens[g].nd)
    /\ \A mi \in 1..gens[g].nm, di \in 1..gens[g].nd :
          Cardinality({n \in 1..Len(gens[g].items) :
                         gens[g].items[n].mi = mi /\ gens[g].items[n].di = di}) = 1
    /\ gens[g].st = "done" => gens[g].pos = Len(gens[g].items)

\* the configurations of the model variants differ pairwise, and so do those
\* of the dataset variants
PairwiseDifferent(g) ==
    \A i, j \in 1..Len(gens[g].items) :
        LET a == gens[g].items[i]
            b == gens[g].items[j]
        IN  /\ a.mi # b.mi => AsMap(a.model) # AsMap(b.model)
            /\ a.di # b.di => AsMap(a.dataset) # AsMap(b.dataset)

FingerprintsDistinct(g) ==
    \A i, j \in 1..Len(gens[g].items) :
        i # j => hexdigest(ProfileOf(gens[g].items[i])) # hexdigest(ProfileOf(gens[g].items[j]))

\* C5: iterating a freshly built Ensemble yields len(ensemble) Profiles, one
\* for every (model variant, dataset variant) pair and none twice, and their
\* fingerprints differ pairwise when the model parameter sets differ pairwise
\* and the dataset parameter sets differ pairwise.
C5_EveryPairOnceDistinctFingerprints ==
    \A g \in 1..Len(gens) :
        (Started(g) /\ gens[g].fresh) =>
            /\ EveryPairOnce(g)
            /\ PairwiseDifferent(g) => FingerprintsDistinct(g)

\* the part of C5 that the code keeps: the count and the pairs
C5_PairsOnly ==
    \A g \in 1..Len(gens) : (Started(g) /\ gens[g].fresh) => EveryPairOnce(g)

\* C6: with no add call in between, a second iteration of the Ensemble yields
\* the same sequence of (model, dataset) Profiles as the first, whether the
\* first was consumed fully or partly.
C6_ReIterable ==
    \A g, h \in 1..Len(gens) :
        (/\ g < h
         /\ Started(g)
         /\ gens[h].st = "done"
         /\ gens[g].adds = gens[h].adds) =>
            gens[h].items = gens[g].items

(***************************************************************************)
(* class expPool and _wrapper.  A task is a Profile together with what the *)
(* components it was constructed with do when run:                         *)
(*   "good"       setting.run returns and savepkl writes the file          *)
(*   "raises"     setting.run always raises                                *)
(*   "ioerror"    savepkl raises IOError                                   *)
(*   "saveerror"  savepkl raises another error                             *)
(* The workers are processes: each task runs on copies of its objects and  *)
(* the workers share only the disk.                                        *)
(***************************************************************************)
Kinds == {"good", "raises", "ioerror", "saveerror"}

\* the Profiles that may be added to the Pool one by one: one of each kind
\* under d1, all with the same configuration, and a good one under d2
PoolProfiles ==
    {[prof |-> Profile(<<Item("a", IntVal(1))>>, TheModel, TheMetrics, TheSetting,
                       "d1", FALSE), kind |-> k] : k \in Kinds}
      \cup
    {[prof |-> Profile(<<Item("b", IntVal(1))>>, TheModel, TheMetrics, TheSetting,
                       "d2", FALSE), kind |-> "good"]}

\* the Ensemble that may be added: two model variants, one dataset
TheEnsemble ==
    [models |-> <<Imap(<<<<Item("a", IntVal(1))>>, <<Item("a", IntVal(2))>>>>)>>,
     datasets |-> <<Imap(DefaultGrid)>>,
     nm |-> Variants(<<<<Item("a", IntVal(1))>>, <<Item("a", IntVal(2))>>>>),
     nd |-> Variants(DefaultGrid),
     save_dir |-> "d1"]

\* another Ensemble that may be added: its model grid is the bad grid
BadEnsemble ==
    [models |-> <<Imap(BadGrid)>>,
     datasets |-> <<Imap(DefaultGrid)>>,
     nm |-> Variants(BadGrid),
     nd |-> Variants(DefaultGrid),
     save_dir |-> "d1"]

SingleGroup(pp) == [kind |-> "profile", pp |-> pp]
EnsembleGroup == [kind |-> "ensemble"]
BadEnsembleGroup == [kind |-> "bad_ensemble"]

\* the Ensemble an Ensemble group is, e being the Ensemble of EnsembleGroup as
\* it is now
GroupEnsemble(grp, e) == IF grp.kind = "ensemble" THEN e ELSE BadEnsemble

\* profiles.save_dir of expPool.add
GroupDir(grp) ==
    IF grp.kind = "profile" THEN grp.pp.prof.save_dir
    ELSE GroupEnsemble(grp, TheEnsemble).save_dir

\* len(group): 1 for the list made of a lone Profile, expEnsemble.__len__
GroupLen(grp, e) ==
    IF grp.kind = "profile" THEN 1
    ELSE EnsLen(GroupEnsemble(grp, e).nm, GroupEnsemble(grp, e).nd)

\* expPool.__len__
RECURSIVE PoolLen(_, _)
PoolLen(groups, e) ==
    IF Len(groups) = 0 THEN 0
    ELSE GroupLen(groups[1], e) + PoolLen(Tail(groups), e)

\* '%3d' % i: the decimal digits, right justified in three columns
Fmt3d(i) ==
    IF i < 10 THEN "  " \o ToString(i)
    ELSE IF i < 100 THEN " " \o ToString(i)
    ELSE ToString(i)

\* a message text is the sequence of its pieces; fmt % args puts each argument
\* in the place of the next '%3d' of the format
RECURSIVE PyFormat(_, _)
PyFormat(fmt, args) ==
    IF Len(fmt) = 0 THEN <<>>
    ELSE IF fmt[1] = "%3d" /\ Len(args) > 0
         THEN <<Fmt3d(args[1])>> \o PyFormat(Tail(fmt), Tail(args))
         ELSE <<fmt[1]>> \o PyFormat(Tail(fmt), args)

\* logger.info(msg, *args), logger.error(msg, *args): the record the logger
\* makes; its message is msg % args when args were passed, else msg as it is
LogRecord(level, msg, args) ==
    [level |-> level,
     message |-> IF Len(args) = 0 THEN msg ELSE PyFormat(msg, args)]

\* logger.info('Exp %3d Begins...' % i)
LogBegins(i) == LogRecord("INFO", PyFormat(<<"Exp ", "%3d", " Begins...">>, <<i>>), <<>>)

\* logger.error('Exp %3d:', exc_info=1)
LogFailed(i) == LogRecord("ERROR", <<"Exp ", "%3d", ":">>, <<>>)

\* logger.info('Exp %3d Done!' % i)
LogDone(i) == LogRecord("INFO", PyFormat(<<"Exp ", "%3d", " Done!">>, <<i>>), <<>>)

\* a task of the queue
Task(g, k, prof, kind) ==
    [g |-> g, k |-> k, prof |-> prof, kind |-> kind, st |-> "pending",
     fn |-> "", outcome |-> "", escaped |-> FALSE, wlog |-> <<>>]

\* chain(*self.tasks) read from group g on: a Profile group gives its
\* Profile, an Ensemble group what iterating the Ensemble now yields
RECURSIVE Chain(_, _, _)
Chain(groups, g, e) ==
    IF g > Len(groups) THEN <<>>
    ELSE IF groups[g].kind = "profile"
         THEN <<Task(g, 1, groups[g].pp.prof, groups[g].pp.kind)>> \o Chain(groups, g + 1, e)
         ELSE LET ge == GroupEnsemble(groups[g], e)
                  items == Items(ge.models, ge.datasets)
              IN  [k \in 1..Len(items) |-> Task(g, k, ProfileOf(items[k]), "good")]
                    \o Chain(groups, g + 1,
                             IF groups[g].kind = "ensemble"
                             THEN [e EXCEPT !.models = Exhausted(e.models),
                                            !.datasets = Exhausted(e.datasets)]
                             ELSE e)

\* the Ensemble after the chain has gone through the groups
EnsembleAfter(groups, e) ==
    IF \E g \in 1..Len(groups) : groups[g].kind = "ensemble"
    THEN [e EXCEPT !.models = Exhausted(e.models), !.datasets = Exhausted(e.datasets)]
    ELSE e

\* iterating the group raises: it is an Ensemble with an instance that cannot
\* be constructed
GroupFails(grp, e) ==
    /\ grp.kind # "profile"
    /\ FirstAdvance(GroupEnsemble(grp, e).models, GroupEnsemble(grp, e).datasets).exc

\* the groups of the chain that are read before one raises: all, if none does
ReadBeforeError(groups, e) ==
    LET failing == {g \in 1..Len(groups) : GroupFails(groups[g], e)}
    IN  IF failing = {} THEN groups
        ELSE SubSeq(groups, 1, (CHOOSE g \in failing : \A h \in failing : g <= h) - 1)

\* a map that hands each task to the workers as soon as it has read it: the
\* tasks read before the error are dispatched
ListedLazily(groups, e) ==
    LET read == ReadBeforeError(groups, e)
    IN  [exc |-> Len(read) < Len(groups),
         tasks |-> Chain(read, 1, e),
         ens |-> EnsembleAfter(read, e)]

\* pool.map(_wrapper, enumerate(chain(*self.tasks))): map makes the list of
\* its iterable before it dispatches anything, so an error raised while the
\* chain is read leaves map with no task handed out
Listed(groups, e) ==
    LET read == ReadBeforeError(groups, e)
    IN  [exc |-> Len(read) < Len(groups),
         tasks |-> IF Len(read) < Len(groups) THEN <<>> ELSE Chain(groups, 1, e),
         ens |-> EnsembleAfter(read, e)]

\* _check_dir(d): the directory is made unless it is there already
MakeDir(disk, d) == disk \cup {d}

\* a run that does not look after the directories
CheckDirsNone(dirs, disk) == disk

\* map(_check_dir, self.dirs)
CheckDirs(dirs, disk) == disk \cup UNION {MakeDir(disk, d) : d \in dirs}

\* a wrapper with no try: the exception leaves it
WrapperUncaught(raised) == raised

\* _wrapper: try foo.run() except BaseException; whether an exception raised
\* by foo.run() leaves the wrapper
WrapperEscapes(raised) == FALSE

\* foo.run() up to the existence check; the task keeps the filename it computed
TaskCheckedAt(t, fn, fsys) ==
    IF ShouldSkip(t.prof, fn, fsys)
    THEN [t EXCEPT !.st = "done", !.fn = fn, !.outcome = "skip"]
    ELSE [t EXCEPT !.st = "exec", !.fn = fn]

TaskChecked(t, fsys) == TaskCheckedAt(t, filename(t.prof), fsys)

\* what savepkl does for the task: the directory has to exist
TaskSave(t, dirs) ==
    IF t.prof.save_dir \notin dirs \/ t.kind = "ioerror" THEN "IOError"
    ELSE IF t.kind = "saveerror" THEN "Error"
    ELSE "written"

\* what setting.run does for the task
TaskRun(t) == IF t.kind = "raises" THEN "raises" ELSE "returns"

(***************************************************************************)
(* SpecPool: Profiles and the Ensemble are added to a Pool, then run is    *)
(* called once; the tasks go through the workers in any interleaving.      *)
(***************************************************************************)
PoolInit ==
    /\ pool_tasks = <<>>
    /\ pool_dirs = {}
    /\ n_workers \in {1, MaxWorkers}
    /\ pool_pc = "adding"
    /\ pool_ens = TheEnsemble
    /\ disk_dirs \in {{}, {"d1"}}
    /\ pool_fs = NoFiles
    /\ queue = <<>>
    /\ OptIdle
    /\ IdIdle
    /\ PrIdle
    /\ EnsIdle

\* pool.add(profiles)
PoolAdd ==
    /\ pool_pc = "adding"
    /\ Len(pool_tasks) < MaxGroups
    /\ \E grp \in {SingleGroup(pp) : pp \in PoolProfiles}
                    \cup {EnsembleGroup, BadEnsembleGroup} :
        /\ pool_dirs' = pool_dirs \cup {GroupDir(grp)}
        /\ pool_tasks' = Append(pool_tasks, grp)
    /\ UNCHANGED <<n_workers, pool_pc, pool_ens, disk_dirs, pool_fs, queue,
                   optVars, idVars, prVars, ensVars>>

\* pool.run() up to the dispatch: the directories are made, the chain of the
\* groups is read into the list pool.map works on; an error raised while it
\* is read leaves run ("failed")
PoolRun ==
    /\ pool_pc = "adding"
    /\ disk_dirs' = CheckDirs(pool_dirs, disk_dirs)
    /\ LET l == Listed(pool_tasks, pool_ens)
       IN  /\ queue' = l.tasks
           /\ pool_ens' = l.ens
           /\ pool_pc' = IF l.exc THEN "failed" ELSE "mapping"
    /\ UNCHANGED <<pool_tasks, pool_dirs, n_workers, pool_fs,
                   optVars, idVars, prVars, ensVars>>

Busy == Cardinality({i \in 1..Len(queue) : queue[i].st = "exec"})

\* _wrapper around the start of foo.run(): 'Begins...' is logged, and 'Done!'
\* too if run returned at the existence check; c is the task after the check
Begun(c, i) ==
    [c EXCEPT !.wlog = IF c.st = "done"
                       THEN <<LogBegins(i), LogDone(i)>>
                       ELSE <<LogBegins(i)>>]

\* a free worker takes a task: _wrapper calls foo.run(), which gets as far as
\* the existence check
TaskBegin(i) ==
    /\ pool_pc = "mapping"
    /\ queue[i].st = "pending"
    /\ Busy < n_workers
    /\ queue' = [queue EXCEPT ![i] = Begun(TaskChecked(queue[i], pool_fs), i - 1)]
    /\ UNCHANGED <<pool_tasks, pool_dirs, n_workers, pool_pc, pool_ens, disk_dirs,
                   pool_fs, optVars, idVars, prVars, ensVars>>

\* _wrapper around the end of foo.run(), r being what the rest of run did: an
\* exception is caught and logged, then 'Done!' is logged
Ended(t, r, raised, escaped, i) ==
    [t EXCEPT !.st = "done", !.outcome = r.outcome, !.escaped = escaped,
              !.wlog = t.wlog
                         \o (IF raised /\ ~escaped THEN <<LogFailed(i)>> ELSE <<>>)
                         \o (IF escaped THEN <<>> ELSE <<LogDone(i)>>)]

\* the rest of foo.run() and of _wrapper for task t at place i of the queue
TaskFinishWith(i, t, r, raised) ==
    /\ pool_fs' = r.fs
    /\ queue' = [queue EXCEPT ![i] =
                    Ended(t, r, raised, raised /\ WrapperEscapes(raised), i - 1)]

TaskFinished(i, t, r) ==
    TaskFinishWith(i, t, r, r.outcome \in {"run_raised", "save_raised"})

TaskFinish(i) ==
    /\ pool_pc = "mapping"
    /\ queue[i].st = "exec"
    /\ TaskFinished(i, queue[i],
                    RunAndSave(queue[i].prof, queue[i].fn, pool_fs,
                               [m \in 1..Len(queue[i].prof.metrics) |-> <<>>],
                               i - 1, TaskRun(queue[i]), TaskSave(queue[i], disk_dirs)))
    /\ UNCHANGED <<pool_tasks, pool_dirs, n_workers, pool_pc, pool_ens, disk_dirs,
                   optVars, idVars, prVars, ensVars>>

\* pool.map returns when every task is done, or raises what a task let out
PoolReturn ==
    /\ pool_pc = "mapping"
    /\ \A i \in 1..Len(queue) : queue[i].st = "done"
    /\ pool_pc' = IF \E i \in 1..Len(queue) : queue[i].escaped
                  THEN "raised" ELSE "returned"
    /\ UNCHANGED <<pool_tasks, pool_dirs, n_workers, pool_ens, disk_dirs, pool_fs,
                   queue, optVars, idVars, prVars, ensVars>>

PoolNext ==
    \/ PoolAdd
    \/ PoolRun
    \/ \E i \in 1..Len(queue) : TaskBegin(i)
    \/ \E i \in 1..Len(queue) : TaskFinish(i)
    \/ PoolReturn

SpecPool == PoolInit /\ [][PoolNext]_vars

\* the tasks of the queue that came from position k of group g and are done
DoneFor(g, k) ==
    {i \in 1..Len(queue) : queue[i].g = g /\ queue[i].k = k /\ queue[i].st = "done"}

\* C3: whatever tasks raise inside Profile.run, at whatever position and with
\* whatever worker count, pool.run() never lets an exception out, and when it
\* returns run has been invoked and has finished on every dispatched Profile
\* and the result of every Profile that does not fail is on disk
C3_FailuresIsolated ==
    /\ pool_pc # "raised"
    /\ \A i \in 1..Len(queue) : ~queue[i].escaped
    /\ pool_pc = "returned" =>
          \A i \in 1..Len(queue) :
              /\ queue[i].st = "done"
              /\ queue[i].kind = "good" =>
                    /\ queue[i].outcome \in {"saved", "skip"}
                    /\ Exists(pool_fs, queue[i].fn)

\* C3 witness: with two workers, run() has returned although an earlier task
\* raised in setting.run and another in savepkl, and a later task saved
C3_Witness ==
    /\ pool_pc = "returned"
    /\ n_workers >= 2
    /\ \E i, j, l \in 1..Len(queue) :
          /\ i < l
          /\ j < l
          /\ queue[i].outcome = "run_raised"
          /\ queue[j].outcome = "save_raised"
          /\ queue[l].kind = "good"
          /\ queue[l].outcome = "saved"

\* C7: when pool.run() has returned, Profile.run has been invoked exactly once,
\* and has finished, for every Profile of every stored group: for each group
\* and each of the len(group) positions in it
C7_EveryContainedProfileOnce ==
    pool_pc = "returned" =>
        \A g \in 1..Len(pool_tasks) :
            \A k \in 1..GroupLen(pool_tasks[g], TheEnsemble) :
                Cardinality(DoneFor(g, k)) = 1

\* call i+1 is the call that follows call i on the same Profile
TwiceInSequence(i) ==
    /\ i + 1 <= Len(calls)
    /\ calls[i].p = calls[i + 1].p

Executed(c) == c.outcome # "skip"

LastCall == calls[Len(calls)]

\* C2 as stated: every call of run on a Profile with overwrite=true calls
\* setup and setting.run and writes the record, whether or not one was stored,
\* and the stored record is then the one of that call.
C2_OverwriteAlwaysReplaces ==
    (Len(calls) > 0 /\ pr[LastCall.p].overwrite) =>
        /\ LastCall.outcome = "saved"
        /\ Exists(fs, filename(pr[LastCall.p]))
        /\ fs[filename(pr[LastCall.p])].Others = Len(calls)

\* C2 amended: no call of run on a Profile with overwrite=true is a SKIP,
\* whether or not a record was stored: setup and setting.run are called; and
\* when setting.run returned and the write succeeded, the record stored at
\* save_dir/fingerprint is the one of that call.
C2_OverwriteRunsAndReplaces ==
    /\ \A i \in 1..Len(calls) : pr[calls[i].p].overwrite => Executed(calls[i])
    /\ (Len(calls) > 0 /\ pr[LastCall.p].overwrite /\ LastCall.outcome = "saved") =>
            /\ Exists(fs, filename(pr[LastCall.p]))
            /\ fs[filename(pr[LastCall.p])].Others = Len(calls)
            /\ fs[filename(pr[LastCall.p])].Options = get_options(pr[LastCall.p])
            /\ st_bound = SettingSetup(pr[LastCall.p])

\* a call with overwrite=true that found a record stored and replaced it
C2_Witness ==
    /\ Len(calls) > 0
    /\ pr[LastCall.p].overwrite
    /\ LastCall.existed
    /\ LastCall.outcome = "saved"
    /\ fs[filename(pr[LastCall.p])] # fs_pre[filename(pr[LastCall.p])]

IdComputed == id_fp[1] # "" /\ id_fp[2] # ""

\* C10: two Profiles whose dataset, model and setting configurations hold the
\* same field values and whose metric configurations hold the same values in
\* the same list order have the same fingerprint, whatever the order their
\* fields were supplied in, their save_dir and their overwrite flag.
C10_SameValuesSameFingerprint ==
    (IdComputed /\ SameValues(id_p[1], id_p[2])) => id_fp[1] = id_fp[2]

\* two Profiles with the same values that differ in field order, save_dir and
\* overwrite flag, both identified
C10_Witness ==
    /\ IdComputed
    /\ SameValues(id_p[1], id_p[2])
    /\ id_p[1].dataset # id_p[2].dataset
    /\ id_p[1].save_dir # id_p[2].save_dir
    /\ id_p[1].overwrite # id_p[2].overwrite
    /\ Len(id_p[1].metrics) = MaxMetrics

\* q's metric list is p's with two metrics of different configurations swapped
SwappedMetrics(p, q) ==
    /\ Len(p.metrics) = Len(q.metrics)
    /\ \E i, j \in 1..Len(p.metrics) :
          /\ i < j
          /\ AsMap(p.metrics[i]) # AsMap(p.metrics[j])
          /\ q.metrics = [p.metrics EXCEPT ![i] = p.metrics[j], ![j] = p.metrics[i]]

SameButMetrics(p, q) ==
    /\ AsMap(p.dataset) = AsMap(q.dataset)
    /\ AsMap(p.model) = AsMap(q.model)
    /\ AsMap(p.setting) = AsMap(q.setting)

\* C11: of two Profiles with the same dataset, model and setting
\* configurations, the second holding the metric list of the first with two
\* metrics of different configurations swapped, the fingerprints differ.
C11_MetricOrderChangesFingerprint ==
    (/\ IdComputed
     /\ SameButMetrics(id_p[1], id_p[2])
     /\ SwappedMetrics(id_p[1], id_p[2])) => id_fp[1] # id_fp[2]

\* the part of C11 that the code keeps: the fingerprints differ when the two
\* swapped metrics render differently
C11_RenderedApart ==
    (/\ IdComputed
     /\ SameButMetrics(id_p[1], id_p[2])
     /\ SwappedMetrics(id_p[1], id_p[2])
     /\ \E i \in 1..Len(id_p[1].metrics) :
            OptionStr(id_p[1].metrics[i]) # OptionStr(id_p[2].metrics[i]))
        => id_fp[1] # id_fp[2]

\* the call reached savepkl and savepkl raised
PersistFailed(c) == c.outcome \in {"save_failed", "save_raised"}

\* the call returned to its caller, no exception left it
Returned(c) == c.outcome \in {"skip", "saved", "save_failed"}

\* C12: every call of run in which savepkl fails, with whatever error, returns
\* normally to its caller (setting.run having completed).
C12_PersistFailureCaught ==
    \A i \in 1..Len(calls) : PersistFailed(calls[i]) => Returned(calls[i])

\* C13: a call of run in which setting.run (or anything before savepkl) raises
\* leaves the files as they were: none is created, and one that existed keeps
\* its content; and every result file either was stored by an earlier session
\* or holds the record of a call of run, on a Profile with that filename, whose
\* setting.run returned.
C13_FailedRunLeavesOutput ==
    /\ (Len(calls) > 0 /\ LastCall.outcome = "run_raised") => fs = fs_pre
    /\ \A f \in DOMAIN fs :
          \/ \E i \in 1..Len(calls) :
                /\ calls[i].outcome = "saved"
                /\ calls[i].fn = f
                /\ fs[f].Others = i
          \/ f = filename(pr[1]) /\ fs[f] = OldRecord(pr[1])

\* a call with overwrite=true on a Profile whose result an earlier call of this
\* session had stored, in which setting.run raised: the record is still there
C13_Witness ==
    /\ Len(calls) > 0
    /\ LastCall.outcome = "run_raised"
    /\ pr[LastCall.p].overwrite
    /\ LastCall.existed
    /\ fs[LastCall.fn].Others \in 1..(Len(calls) - 1)

\* C13 in the pool: every file under the save dirs was written by a task whose
\* setting.run returned and whose savepkl wrote it
C13_PoolFilesFromCompletedRuns ==
    \A f \in DOMAIN pool_fs :
        \E i \in 1..Len(queue) :
            /\ queue[i].outcome = "saved"
            /\ queue[i].fn = f

\* the task went past the existence check: it runs, or ran, setup and
\* setting.run
PastCheck(t) == t.st \in {"exec", "done"} /\ t.outcome # "skip"

\* two tasks whose Profiles have the same fingerprint and the same save_dir,
\* overwrite=false, and whose setting.run and savepkl succeed when reached
Colliding(i, j) ==
    /\ i # j
    /\ queue[i].kind = "good"
    /\ queue[j].kind = "good"
    /\ ~queue[i].prof.overwrite
    /\ ~queue[j].prof.overwrite
    /\ queue[i].prof.save_dir = queue[j].prof.save_dir
    /\ hexdigest(queue[i].prof) = hexdigest(queue[j].prof)

\* C14: of two Profiles with the same fingerprint, the same save_dir and
\* overwrite=false that one pool.run() dispatches, at most one goes past the
\* existence check (calls setting.run and writes the file), in every
\* interleaving of the workers; the other is skipped.
C14_CollisionSkipped ==
    \A i, j \in 1..Len(queue) :
        Colliding(i, j) => ~(PastCheck(queue[i]) /\ PastCheck(queue[j]))

\* the part of C14 that the code keeps: with one worker the second is skipped
C14_OneWorker == n_workers = 1 => C14_CollisionSkipped

\* the pieces of a message text
Pieces(message) == {message[n] : n \in 1..Len(message)}

\* the task raised inside Profile.run
TaskRaised(t) == t.st = "done" /\ t.outcome \in {"run_raised", "save_raised"}

\* the error records the wrapper logged for the task
ErrorRecords(t) == {n \in 1..Len(t.wlog) : t.wlog[n].level = "ERROR"}

\* C15: for every task whose Profile.run raised, the wrapper logged an error
\* record whose message carries the index of the task, its position in the
\* flattened submission order (counted from 0 by enumerate).
C15_ErrorRecordCarriesIndex ==
    \A i \in 1..Len(queue) :
        TaskRaised(queue[i]) =>
            \E n \in ErrorRecords(queue[i]) :
                Fmt3d(i - 1) \in Pieces(queue[i].wlog[n].message)

\* the part of C15 that the code keeps: the wrapper logs exactly one error
\* record for a task that raised and none for another, and the records around
\* it ('Begins...', 'Done!') carry the index
C15_ErrorRecordLogged ==
    \A i \in 1..Len(queue) :
        /\ queue[i].st = "done" =>
              /\ Cardinality(ErrorRecords(queue[i])) = IF TaskRaised(queue[i]) THEN 1 ELSE 0
              /\ queue[i].wlog[1] = LogBegins(i - 1)
              /\ queue[i].wlog[Len(queue[i].wlog)] = LogDone(i - 1)
        /\ \A n \in 1..Len(queue[i].wlog) :
              queue[i].wlog[n].level = "INFO" =>
                  Fmt3d(i - 1) \in Pieces(queue[i].wlog[n].message)

\* the step is a call of run that took the SKIP path
SkipStep ==
    /\ Len(calls') = Len(calls) + 1
    /\ calls'[Len(calls')].outcome = "skip"

\* C16: a call of run that takes the SKIP path (overwrite=false and a result
\* stored at save_dir/fingerprint) leaves the setting bound to the dataset,
\* model and metrics it was bound to, every metric's recorded values and every
\* stored file as they were before the call.
C16_SkipChangesNothing ==
    [][SkipStep => (fs' = fs /\ st_bound' = st_bound /\ m_values' = m_values)]_vars

\* a call skipped while the setting was bound to the components of another
\* Profile and the metric held recorded values: the binding and the values
\* are still those
C16_Witness ==
    /\ Len(calls) > 1
    /\ LastCall.outcome = "skip"
    /\ LastCall.existed
    /\ ~pr[LastCall.p].overwrite
    /\ st_bound # <<>>
    /\ st_bound # SettingSetup(pr[LastCall.p])
    /\ m_values[1] # <<>>
    /\ fs = fs_pre

\* the parameter sets of the sources, in the order the sources were added and
\* their grids enumerate
AllParas(sources) == Remaining([i \in 1..Len(sources) |-> Imap(sources[i].grid)])

\* pair a comes before pair b in model-major order
ModelMajorBefore(a, b) == a.mi < b.mi \/ (a.mi = b.mi /\ a.di < b.di)

\* the pairs of generator g are made of the variants that the parameter sets
\* mparas and dparas give, at the positions the pairs name
MadeOf(g, mparas, dparas) ==
    \A n \in 1..Len(gens[g].items) :
        /\ gens[g].items[n].model =
              Construct(ModelDefaults, mparas[gens[g].items[n].mi]).dict
        /\ gens[g].items[n].dataset =
              Construct(DatasetDefaults, dparas[gens[g].items[n].di]).dict

\* C17: the Profiles of an iteration come in model-major order: each Profile
\* is followed by the next dataset variant with the same model variant or,
\* after the last dataset variant, by a later model variant; for a freshly
\* built Ensemble the model variants are those of the model sources in the
\* order the sources were added and their grids enumerate, each paired with
\* every dataset variant.
C17_ModelMajor ==
    \A g \in 1..Len(gens) :
        Started(g) =>
            /\ \A n \in 1..(Len(gens[g].items) - 1) :
                  ModelMajorBefore(gens[g].items[n], gens[g].items[n + 1])
            /\ (gens[g].fresh /\ gens[g].adds = Adds) =>
                  /\ EveryPairOnce(g)
                  /\ MadeOf(g, AllParas(ens_models), AllParas(ens_datasets))

\* a fresh Ensemble with two model sources and a dataset grid of two, iterated
\* to the end
C17_Witness ==
    \E g \in 1..Len(gens) :
        /\ gens[g].st = "done"
        /\ gens[g].fresh
        /\ gens[g].adds = Adds
        /\ Len(ens_models) = 2
        /\ gens[g].nm >= 3
        /\ gens[g].nd >= 2
        /\ Len(gens[g].items) = gens[g].nm * gens[g].nd

\* C18: when an Ensemble of the pool has an instance that cannot be
\* constructed, pool.run() raises the error to its caller with no Profile
\* dispatched: no task has started and no result file is written; and run
\* never goes on to dispatch with such an Ensemble among its groups.
C18_ConstructionErrorBeforeExecution ==
    /\ pool_pc = "failed" =>
          /\ queue = <<>>
          /\ pool_fs = NoFiles
    /\ (/\ pool_pc # "adding"
        /\ \E g \in 1..Len(pool_tasks) : GroupFails(pool_tasks[g], pool_ens))
          => pool_pc = "failed"

\* run() has raised for a pool that holds two Profiles before the Ensemble
\* with the bad grid: neither was dispatched
C18_Witness ==
    /\ pool_pc = "failed"
    /\ Len(pool_tasks) = 3
    /\ pool_tasks[1].kind = "profile"
    /\ pool_tasks[2].kind = "profile"
    /\ pool_tasks[3].kind = "bad_ensemble"
    /\ queue = <<>>
    /\ pool_fs = NoFiles

\* C18 for an Ensemble iterated directly: a generator that raised a
\* construction error raised it on its first advance, before it yielded any
\* Profile, and a generator that yielded had every instance constructed
C18_IterationFailsBeforeFirstProfile ==
    \A g \in 1..Len(gens) :
        /\ gens[g].st = "raised" => (gens[g].items = <<>> /\ gens[g].pos = 0)
        /\ Started(g) => gens[g].pos <= Len(gens[g].items)

\* a generator raised on an Ensemble whose dataset grid is the bad grid, after
\* the models had been read
C18_IterationWitness ==
    \E g \in 1..Len(gens) :
        /\ gens[g].st = "raised"
        /\ Len(ens_models) > 0
        /\ \A m \in 1..Len(ens_models) : ens_models[m].pos = Len(ens_models[m].grid)
        /\ \E d \in 1..Len(ens_datasets) :
              ens_datasets[d].grid = BadGrid /\ ens_datasets[d].pos = 2

\* C19: the directory set of the pool is the set of the save_dirs of the
\* groups added, each in it once however many groups share it; once run() has
\* looked after the directories every registered directory exists, whether it
\* existed before or not, and no task starts before its directory exists.
C19_DirsRegisteredAndMade ==
    /\ pool_dirs = {GroupDir(pool_tasks[g]) : g \in 1..Len(pool_tasks)}
    /\ Cardinality(pool_dirs) <= Len(pool_tasks)
    /\ pool_pc # "adding" => pool_dirs \subseteq disk_dirs
    /\ \A i \in 1..Len(queue) :
          queue[i].st # "pending" => queue[i].prof.save_dir \in disk_dirs

\* three groups, two of them under the same directory, and a task under each
\* directory has written its file
C19_Witness ==
    /\ pool_pc = "returned"
    /\ Len(pool_tasks) = 3
    /\ pool_dirs = {"d1", "d2"}
    /\ \E i, j \in 1..Len(queue) :
          /\ queue[i].prof.save_dir = "d1"
          /\ queue[j].prof.save_dir = "d2"
          /\ queue[i].outcome = "saved"
          /\ queue[j].outcome = "saved"

\* the values the record stored in file f holds for its metric m
RecordedValues(f, m) == fs[f].Metrics[m][2]

\* C20: the Metrics part of every record that a call of run stored holds, for
\* each metric, only the value recorded during that call, also when the
\* Profiles share their metric instances and setting and are run one after
\* another by one caller.
C20_RecordHoldsOwnValuesOnly ==
    \A f \in DOMAIN fs :
        fs[f].Others # 0 =>
            \A m \in 1..Len(fs[f].Metrics) : RecordedValues(f, m) = <<fs[f].Others>>

\* the part of C20 that the code keeps: the record holds the value of its own
\* call, as the last of the values
C20_RecordHoldsOwnValueLast ==
    \A f \in DOMAIN fs :
        fs[f].Others # 0 =>
            \A m \in 1..Len(fs[f].Metrics) :
                /\ Len(RecordedValues(f, m)) > 0
                /\ RecordedValues(f, m)[Len(RecordedValues(f, m))] = fs[f].Others

====
